---- MODULE Spec2Model ----
(***************************************************************************)
(* Verification model of the claude-code-viewer frontend.                  *)
(*                                                                         *)
(*   Spec      ProjectDetails: project loads, the auto-calculate effect,   *)
(*             per-session one-shot statistics requests and the retry      *)
(*             control (src/unnamed/part_002).                             *)
(*   SpecTags  TagManager: add / remove tag handlers and their API calls   *)
(*             (src/frontend/src/components/MessageItem.tsx).              *)
(*   SpecChanges, SpecSurvival  the two file-tree builders, applied to     *)
(*             bounded path lists (FileChangeModal.tsx,                    *)
(*             CodeSurvivalFileTree.tsx).                                  *)
(*   SpecDetails  OneShotDetailsModal: the common prefix removed from the  *)
(*             paths of file_stats (src/unnamed/part_001).                 *)
(*   SpecChart the token usage chart data of SessionStatsModal and         *)
(*             SessionAnalyticsModal.                                      *)
(*   SpecView  ProjectDetails together with its file-change modal          *)
(*             (handleViewChanges and the answers to it).                  *)
(*                                                                         *)
(* One React event (a click, a prop change, the settling of a promise) is  *)
(* one action: the handler's state updates, the re-render they cause and   *)
(* the effects of that render are committed together, because the event    *)
(* loop runs them to completion before the next event is taken.            *)
(***************************************************************************)
EXTENDS Integers, Sequences, FiniteSets, TLC

VARIABLES
    \* ---- ProjectDetails (part_002:246-273) ----
    projectName,        \* the projectName prop
    details,            \* useState<ProjectDetailsType | null>
    sessions,           \* useState<Session[]>: the ids of the sessions held
    loading,            \* useState(true)
    error,              \* useState<string | null>
    oneShotStats,       \* useState<Record<string, OneShotStats>>
    loadingStats,       \* useState<Record<string, boolean>>
    autoLoadTriggered,  \* useRef(false)
    pendingLoads,       \* Promise.all([...]) chains not yet settled, per project
    pendingStats,       \* api.getOneShotStats calls not yet settled, per session
    \* ---- TagManager (MessageItem.tsx:98-102) ----
    initialTags,        \* the initialTags prop
    tags,               \* useState<Tag[]>(initialTags): the tag names, in order
    isAdding,           \* useState(false)
    newTagName,         \* useState('')
    pendingAdds,        \* api.addTag calls not yet settled, per captured name
    pendingRemoves,     \* api.removeTag calls not yet settled, per tag name
    tagsChangeCalls,    \* number of times the onTagsChange prop was called
    consoleLog,         \* the messages TagManager passed to console.error
    \* ---- file trees ----
    changes,            \* FileChangeModal: the changes prop
    fileTree,           \* FileChangeModal: buildFileTree(fileStatusMap)
    files,              \* CodeSurvivalFileTree: the files prop
    survivalTree,       \* CodeSurvivalFileTree: buildFileTree(files)
    expandedFolders,    \* CodeSurvivalFileTree: useState<Set<string>>(new Set())
    \* ---- OneShotDetailsModal (part_001:28-80) ----
    stats,              \* the stats prop (OneShotStats | null)
    processedStats,     \* useMemo of lines 38-80
    \* ---- SessionStatsModal / SessionAnalyticsModal ----
    tokenUsageHistory,  \* session.token_usage_history
    statsChart,         \* SessionStatsModal: chartData
    analyticsChart,     \* SessionAnalyticsModal: chartData
    \* ---- ProjectDetails, the file-change modal (part_002:254-256) ----
    selectedSessionId,  \* useState<string | null>(null)
    fileChanges,        \* useState<FileChange[]>([])
    modalOpen,          \* useState(false)
    pendingChanges      \* api.getSessionChanges calls not yet settled, per session

pdVars == <<projectName, details, sessions, loading, error, oneShotStats,
            loadingStats, autoLoadTriggered, pendingLoads, pendingStats>>
tagVars == <<initialTags, tags, isAdding, newTagName, pendingAdds,
             pendingRemoves, tagsChangeCalls, consoleLog>>
treeVars == <<changes, fileTree, files, survivalTree, expandedFolders>>
detailVars == <<stats, processedStats>>
chartVars == <<tokenUsageHistory, statsChart, analyticsChart>>
viewVars == <<selectedSessionId, fileChanges, modalOpen, pendingChanges>>
vars == <<pdVars, tagVars, treeVars, detailVars, chartVars, viewVars>>

(***************************************************************************)
(* Bounds of the model.                                                    *)
(***************************************************************************)
MaxLoads == 2        \* project loads in flight at the same time
MaxPending == 2      \* statistics requests in flight for one session
MaxTagCalls == 3     \* api.addTag / api.removeTag calls that are in flight or fulfilled
MaxSegs == 2         \* '/'-separated segments of a file path
MaxChanges == 2      \* entries of the changes prop of FileChangeModal
MaxFiles == 2        \* entries of the files prop of CodeSurvivalFileTree
MaxTurns == 2        \* entries of the JSON array in token_usage_history
MaxViews == 2        \* api.getSessionChanges calls in flight at the same time

(***************************************************************************)
(* ProjectDetails: the data the external API serves.                       *)
(***************************************************************************)
Projects == {"A", "B", "C"}
SessionIds == {"a1", "a2", "a3", "b1"}

\* api.getSessions(projectName): project C has no sessions.
SessionsOf(p) ==
    CASE p = "A" -> {"a1", "a2", "a3"}
      [] p = "B" -> {"b1"}
      [] OTHER -> {}

\* session.file_change_count || 0: a3 has no file changes.
FileChangeCount(s) ==
    CASE s = "a1" -> 1
      [] s = "a2" -> 3
      [] s = "b1" -> 2
      [] OTHER -> 0

\* The payloads api.getOneShotStats may answer with (objects, hence truthy).
StatValues == {"stats1", "stats2"}
\* err.message of a rejected project load, by the request that failed.
ErrorMessages == {"details failed", "sessions failed"}

Undefined == "undefined"
Null == "null"

(***************************************************************************)
(* ProjectDetails (src/unnamed/part_002:246-358, 597-637).                 *)
(***************************************************************************)
NoRecord == [s \in SessionIds |-> Undefined]
NoRequests == [s \in SessionIds |-> 0]
NoLoads == [p \in Projects |-> 0]

LoadsInFlight == pendingLoads["A"] + pendingLoads["B"] + pendingLoads["C"]

\* The three return statements of the component (part_002:343-360).
View ==
    IF loading THEN "spinner"
    ELSE IF error # Null \/ details = Null THEN "error"
    ELSE "main"

\* loadOneShotStats, line 276: the early return, read from the state the
\* callback closed over (ls, os are loadingStats and oneShotStats of the
\* render that created it).  The request goes out only if this holds.
LoadGuardNoFlightCheck(s, ls, os) == os[s] = Undefined

LoadGuardPasses(s, ls, os) == ~(ls[s] = "true" \/ os[s] # Undefined)

\* line 278 for every session of S: setLoadingStats(prev => ({...prev, [id]: true}))
MarkLoading(S, ls) == [s \in SessionIds |-> IF s \in S THEN "true" ELSE ls[s]]

\* line 280 for every session of S: api.getOneShotStats(id, ...) is called
IssueRequests(S, ps) == [s \in SessionIds |-> IF s \in S THEN ps[s] + 1 ELSE ps[s]]

\* lines 281-284: setOneShotStats(prev => ({...prev, [sessionId]: stats}))
ApplyStatsDroppingOthers(prev, s, v) ==
    [x \in SessionIds |-> IF x = s THEN v ELSE Undefined]

ApplyStats(prev, s, v) == [prev EXCEPT ![s] = v]

\* line 288 (finally): setLoadingStats(prev => ({...prev, [sessionId]: false}))
ClearLoadingKeepFlag(prev, s) == prev

ClearLoading(prev, s) == [prev EXCEPT ![s] = "false"]

\* line 333: sessions.filter(s => (s.file_change_count || 0) > 0)
EverySession(ses) == ses

SessionsWithChanges(ses) == {s \in ses : FileChangeCount(s) > 0}

\* The auto-calculate effect (lines 328-341), run in the commit of a render
\* whose sessions, loading or loadOneShotStats changed (ran).  ld, ses, trig,
\* ls, os, ps are the values that render committed.  It sets the ref and
\* calls loadOneShotStats for every session with file changes.
AutoCalculateEveryRun(ran, ld, ses, trig, ls, os, ps) ==
    LET fire == ran /\ ~ld /\ ses # {}
        started == {s \in SessionsWithChanges(ses) : LoadGuardPasses(s, ls, os)}
    IN  IF fire
        THEN /\ \A s \in started : ps[s] < MaxPending
             /\ autoLoadTriggered' = TRUE
             /\ loadingStats' = MarkLoading(started, ls)
             /\ pendingStats' = IssueRequests(started, ps)
        ELSE /\ autoLoadTriggered' = trig
             /\ loadingStats' = ls
             /\ pendingStats' = ps

AutoCalculate(ran, ld, ses, trig, ls, os, ps) ==
    LET fire == ran /\ ~ld /\ ses # {} /\ ~trig
        sessionsWithChanges == SessionsWithChanges(ses)
        started == {s \in sessionsWithChanges : LoadGuardPasses(s, ls, os)}
    IN  IF fire
        THEN /\ \A s \in started : ps[s] < MaxPending
             /\ autoLoadTriggered' = TRUE
             /\ loadingStats' = MarkLoading(started, ls)
             /\ pendingStats' = IssueRequests(started, ps)
        ELSE /\ autoLoadTriggered' = trig
             /\ loadingStats' = ls
             /\ pendingStats' = ps

\* The projectName prop changes; the initial-load effect runs (lines 311-325).
OpenProject(p) ==
    /\ p # projectName
    /\ LoadsInFlight < MaxLoads
    /\ projectName' = p
    /\ loading' = TRUE
    /\ error' = Null
    /\ pendingLoads' = [pendingLoads EXCEPT ![p] = @ + 1]
    /\ UNCHANGED <<details, sessions, oneShotStats>>
    /\ AutoCalculate(~loading, TRUE, sessions, FALSE,
                     loadingStats, oneShotStats, pendingStats)
    /\ UNCHANGED <<tagVars, treeVars, detailVars, chartVars, viewVars>>

\* Promise.all fulfils for a load of project p: .then (319-322), .finally (324).
LoadResolved(p) ==
    /\ pendingLoads[p] > 0
    /\ pendingLoads' = [pendingLoads EXCEPT ![p] = @ - 1]
    /\ details' = p
    /\ sessions' = SessionsOf(p)
    /\ loading' = FALSE
    /\ UNCHANGED <<projectName, error, oneShotStats>>
    /\ AutoCalculate(TRUE, FALSE, SessionsOf(p), autoLoadTriggered,
                     loadingStats, oneShotStats, pendingStats)
    /\ UNCHANGED <<tagVars, treeVars, detailVars, chartVars, viewVars>>

\* Promise.all rejects for a load of project p (either request failed):
\* .catch (323), .finally (324).
LoadRejectedKeepsSpinner(p, msg) ==
    /\ pendingLoads[p] > 0
    /\ pendingLoads' = [pendingLoads EXCEPT ![p] = @ - 1]
    /\ error' = msg
    /\ UNCHANGED <<loading, projectName, details, sessions, oneShotStats>>
    /\ UNCHANGED <<autoLoadTriggered, loadingStats, pendingStats>>
    /\ UNCHANGED <<tagVars, treeVars, detailVars, chartVars, viewVars>>

LoadRejected(p, msg) ==
    /\ pendingLoads[p] > 0
    /\ pendingLoads' = [pendingLoads EXCEPT ![p] = @ - 1]
    /\ error' = msg
    /\ loading' = FALSE
    /\ UNCHANGED <<projectName, details, sessions, oneShotStats>>
    /\ AutoCalculate(loading, FALSE, sessions, autoLoadTriggered,
                     loadingStats, oneShotStats, pendingStats)
    /\ UNCHANGED <<tagVars, treeVars, detailVars, chartVars, viewVars>>

\* api.getOneShotStats fulfils for session s with payload v: lines 281-284, 288.
StatsResolved(s, v) ==
    /\ pendingStats[s] > 0
    /\ oneShotStats' = ApplyStats(oneShotStats, s, v)
    /\ UNCHANGED <<projectName, details, sessions, loading, error, pendingLoads>>
    /\ AutoCalculate(TRUE, loading, sessions, autoLoadTriggered,
                     ClearLoading(loadingStats, s), oneShotStats',
                     [pendingStats EXCEPT ![s] = @ - 1])
    /\ UNCHANGED <<tagVars, treeVars, detailVars, chartVars, viewVars>>

\* api.getOneShotStats rejects for session s: catch (285-286), finally (288).
StatsRejected(s) ==
    /\ pendingStats[s] > 0
    /\ UNCHANGED <<projectName, details, sessions, loading, error, pendingLoads,
                   oneShotStats>>
    /\ AutoCalculate(ClearLoading(loadingStats, s) # loadingStats,
                     loading, sessions, autoLoadTriggered,
                     ClearLoading(loadingStats, s), oneShotStats,
                     [pendingStats EXCEPT ![s] = @ - 1])
    /\ UNCHANGED <<tagVars, treeVars, detailVars, chartVars, viewVars>>

\* The retry button of the one-shot cell (lines 599-632) is rendered in the
\* main view for a session with file changes that is neither loading nor
\* loaded; its onClick calls loadOneShotStats(session.id).
RetryShown(s) ==
    /\ View = "main"
    /\ s \in sessions
    /\ FileChangeCount(s) > 0
    /\ loadingStats[s] # "true"
    /\ oneShotStats[s] = Undefined

RetryClick(s) ==
    /\ RetryShown(s)
    /\ LET started == IF LoadGuardPasses(s, loadingStats, oneShotStats)
                      THEN {s} ELSE {}
       IN  /\ \A x \in started : pendingStats[x] < MaxPending
           /\ AutoCalculate(started # {}, loading, sessions, autoLoadTriggered,
                            MarkLoading(started, loadingStats), oneShotStats,
                            IssueRequests(started, pendingStats))
    /\ UNCHANGED <<projectName, details, sessions, loading, error, pendingLoads,
                   oneShotStats>>
    /\ UNCHANGED <<tagVars, treeVars, detailVars, chartVars, viewVars>>

(***************************************************************************)
(* TagManager (src/frontend/src/components/MessageItem.tsx:98-143).        *)
(* A tag is modelled by its name; id and color play no part in the         *)
(* handlers.                                                               *)
(***************************************************************************)
TagNames == {"x", "y"}
\* What the user may have typed into the input: nothing, a blank, a name.
TagInputs == {"", " ", "x", "y"}
\* The values the parent passes as initialTags.
TagLists == {<<>>, <<"x">>, <<"x", "y">>}

NoTagCalls == [n \in TagNames |-> 0]

\* newTagName.trim(), on the inputs above
Trim(n) == IF n = " " THEN "" ELSE n

TagCallsInFlight ==
    pendingAdds["x"] + pendingAdds["y"] + pendingRemoves["x"] + pendingRemoves["y"]

HasTag(list, name) == \E i \in 1..Len(list) : list[i] = name

\* tags.filter(t => t.name !== tagName), line 138
RECURSIVE WithoutTag(_, _)
WithoutTag(list, name) ==
    IF list = <<>> THEN <<>>
    ELSE IF Head(list) = name THEN WithoutTag(Tail(list), name)
    ELSE <<Head(list)>> \o WithoutTag(Tail(list), name)

\* The initialTags prop changes; the effect of lines 104-106 copies it.
InitialTagsChange(list) ==
    /\ initialTags' = list
    /\ tags' = list
    /\ UNCHANGED <<isAdding, newTagName, pendingAdds, pendingRemoves,
                   tagsChangeCalls, consoleLog>>
    /\ UNCHANGED <<pdVars, treeVars, detailVars, chartVars, viewVars>>

\* The "Add Tag" button (lines 181, 242).
StartAdding ==
    /\ ~isAdding
    /\ isAdding' = TRUE
    /\ UNCHANGED <<initialTags, tags, newTagName, pendingAdds, pendingRemoves,
                   tagsChangeCalls, consoleLog>>
    /\ UNCHANGED <<pdVars, treeVars, detailVars, chartVars, viewVars>>

\* The X button or Escape (lines 158, 173, 219, 234).
CancelAdding ==
    /\ isAdding
    /\ isAdding' = FALSE
    /\ UNCHANGED <<initialTags, tags, newTagName, pendingAdds, pendingRemoves,
                   tagsChangeCalls, consoleLog>>
    /\ UNCHANGED <<pdVars, treeVars, detailVars, chartVars, viewVars>>

\* onChange of the input (lines 153, 214).
TypeTagName(n) ==
    /\ isAdding
    /\ newTagName' = n
    /\ UNCHANGED <<initialTags, tags, isAdding, pendingAdds, pendingRemoves,
                   tagsChangeCalls, consoleLog>>
    /\ UNCHANGED <<pdVars, treeVars, detailVars, chartVars, viewVars>>

\* handleAddTag up to its await (lines 114-117): the early return on a blank
\* name, otherwise api.addTag(sessionId, newTagName) is called.
handleAddTag ==
    /\ isAdding
    /\ Trim(newTagName) # ""
    /\ tagsChangeCalls + TagCallsInFlight < MaxTagCalls
    /\ pendingAdds' = [pendingAdds EXCEPT ![newTagName] = @ + 1]
    /\ UNCHANGED <<initialTags, tags, isAdding, newTagName, pendingRemoves,
                   tagsChangeCalls, consoleLog>>
    /\ UNCHANGED <<pdVars, treeVars, detailVars, chartVars, viewVars>>

\* api.addTag fulfils; handleAddTag resumes with the name it closed over
\* (lines 119-129).
AddTagFulfilled(n) ==
    /\ pendingAdds[n] > 0
    /\ pendingAdds' = [pendingAdds EXCEPT ![n] = @ - 1]
    /\ tags' = Append(tags, n)
    /\ newTagName' = ""
    /\ isAdding' = FALSE
    /\ tagsChangeCalls' = tagsChangeCalls + 1
    /\ UNCHANGED <<initialTags, pendingRemoves, consoleLog>>
    /\ UNCHANGED <<pdVars, treeVars, detailVars, chartVars, viewVars>>

\* api.addTag rejects; the catch block of lines 130-132.
AddTagRejectedNotifies(n) ==
    /\ pendingAdds[n] > 0
    /\ pendingAdds' = [pendingAdds EXCEPT ![n] = @ - 1]
    /\ consoleLog' = consoleLog \cup {"Failed to add tag"}
    /\ tagsChangeCalls' = tagsChangeCalls + 1
    /\ UNCHANGED <<initialTags, tags, isAdding, newTagName, pendingRemoves>>
    /\ UNCHANGED <<pdVars, treeVars, detailVars, chartVars, viewVars>>

AddTagRejected(n) ==
    /\ pendingAdds[n] > 0
    /\ pendingAdds' = [pendingAdds EXCEPT ![n] = @ - 1]
    /\ consoleLog' = consoleLog \cup {"Failed to add tag"}
    /\ UNCHANGED <<initialTags, tags, isAdding, newTagName, pendingRemoves,
                   tagsChangeCalls>>
    /\ UNCHANGED <<pdVars, treeVars, detailVars, chartVars, viewVars>>

\* handleRemoveTag up to its await (lines 135-137), from the X of a shown tag
\* (line 201).
handleRemoveTag(t) ==
    /\ HasTag(tags, t)
    /\ tagsChangeCalls + TagCallsInFlight < MaxTagCalls
    /\ pendingRemoves' = [pendingRemoves EXCEPT ![t] = @ + 1]
    /\ UNCHANGED <<initialTags, tags, isAdding, newTagName, pendingAdds,
                   tagsChangeCalls, consoleLog>>
    /\ UNCHANGED <<pdVars, treeVars, detailVars, chartVars, viewVars>>

\* api.removeTag fulfils (lines 138-139).
RemoveTagFulfilled(t) ==
    /\ pendingRemoves[t] > 0
    /\ pendingRemoves' = [pendingRemoves EXCEPT ![t] = @ - 1]
    /\ tags' = WithoutTag(tags, t)
    /\ tagsChangeCalls' = tagsChangeCalls + 1
    /\ UNCHANGED <<initialTags, isAdding, newTagName, pendingAdds, consoleLog>>
    /\ UNCHANGED <<pdVars, treeVars, detailVars, chartVars, viewVars>>

\* api.removeTag rejects; the catch block of lines 140-142.
RemoveTagRejected(t) ==
    /\ pendingRemoves[t] > 0
    /\ pendingRemoves' = [pendingRemoves EXCEPT ![t] = @ - 1]
    /\ consoleLog' = consoleLog \cup {"Failed to remove tag"}
    /\ UNCHANGED <<initialTags, tags, isAdding, newTagName, pendingAdds,
                   tagsChangeCalls>>
    /\ UNCHANGED <<pdVars, treeVars, detailVars, chartVars, viewVars>>

(***************************************************************************)
(* File paths.  A string is modelled by the list of its '/'-separated      *)
(* segments, which is what split('/') returns: 'a/b' is <<"a","b">>,       *)
(* '/a' is <<"","a">>, 'a/' is <<"a","">> and '' is <<"">>.  Segment names *)
(* are ordinary names (none is a member of Object.prototype).              *)
(***************************************************************************)
Segments == {"", "a", "b"}
Paths == UNION {[1..n -> Segments] : n \in 1..MaxSegs}

\* array.join('/') of an array of segments: [].join('/') is ''.
Join(segs) == IF segs = <<>> THEN <<"">> ELSE segs

\* str.substring(n) where the first k segments of str, joined, are n
\* characters long and more segments follow: with k = 0 nothing is cut,
\* otherwise what is left starts with the '/' that followed segment k.
SubstringAfter(str, k) ==
    IF k = 0 THEN str ELSE <<"">> \o SubSeq(str, k + 1, Len(str))

\* str.replace(/^\//, ''): one leading '/' is removed if there is one.
StripLeadingSlash(str) ==
    IF Len(str) >= 2 /\ str[1] = "" THEN Tail(str) ELSE str

Min(S) == CHOOSE m \in S : \A x \in S : m <= x

Range(seq) == {seq[i] : i \in 1..Len(seq)}

NotBuilt == [built |-> FALSE, threw |-> FALSE, nodes |-> <<>>, prefix |-> <<"">>,
             order |-> <<>>]

\* a.localeCompare(b) on the segment names: the empty name first, then a, b.
NameRank(n) == CASE n = "" -> 0 [] n = "a" -> 1 [] OTHER -> 2

LocaleCompare(a, b) ==
    IF NameRank(a) < NameRank(b) THEN -1
    ELSE IF NameRank(a) > NameRank(b) THEN 1 ELSE 0

\* Object.values(children) of the node with key parent: its children in the
\* order in which they were created, which is the order in which the part
\* lists inserted below the root first reached them.
RECURSIVE ChildKeys(_, _, _)
ChildKeys(partsList, parent, seen) ==
    IF partsList = <<>> THEN seen
    ELSE LET parts == Head(partsList)
             key == SubSeq(parts, 1, Len(parent) + 1)
         IN  ChildKeys(Tail(partsList), parent,
                 IF /\ Len(parts) > Len(parent)
                    /\ SubSeq(parts, 1, Len(parent)) = parent
                    /\ key \notin Range(seen)
                 THEN Append(seen, key) ELSE seen)

(***************************************************************************)
(* FileChangeModal (src/frontend/src/components/FileChangeModal.tsx).      *)
(***************************************************************************)
ChangeTypes == {"write", "edit"}
FileChanges == [path : Paths, type : ChangeTypes]
ChangeLists == UNION {[1..n -> FileChanges] : n \in 0..MaxChanges}

\* fileStatusMap (lines 233-242), the value held for path p after the
\* changes cs: a 'write' once seen stays, otherwise the latest type.
RECURSIVE StatusAfterLatestWins(_, _, _)
StatusAfterLatestWins(cs, p, current) ==
    IF cs = <<>> THEN current
    ELSE LET c == Head(cs)
         IN  StatusAfterLatestWins(Tail(cs), p,
                 IF c.path # p THEN current ELSE c.type)

RECURSIVE StatusAfter(_, _, _)
StatusAfter(cs, p, current) ==
    IF cs = <<>> THEN current
    ELSE LET c == Head(cs)
         IN  StatusAfter(Tail(cs), p,
                 IF c.path # p \/ current = "write" THEN current ELSE c.type)

fileStatusMap(cs, p) == StatusAfter(cs, p, Undefined)

\* Array.from(fileMap.keys()) (line 33): the distinct paths, in the order
\* in which the map first received them.
RECURSIVE MapKeys(_, _)
MapKeys(cs, seen) ==
    IF cs = <<>> THEN seen
    ELSE MapKeys(Tail(cs),
                 IF Head(cs).path \in Range(seen) THEN seen
                 ELSE Append(seen, Head(cs).path))

\* The loop of lines 44-51: the segments, from index i on, that all paths
\* share with the first one, never reaching the last segment of the shortest.
RECURSIVE CommonSegmentsToLast(_, _, _)
CommonSegmentsToLast(splitPaths, i, minLen) ==
    IF i > minLen THEN <<>>
    ELSE IF \A k \in 1..Len(splitPaths) : splitPaths[k][i] = splitPaths[1][i]
         THEN <<splitPaths[1][i]>> \o CommonSegmentsToLast(splitPaths, i + 1, minLen)
         ELSE <<>>

RECURSIVE CommonSegments(_, _, _)
CommonSegments(splitPaths, i, minLen) ==
    IF i > minLen - 1 THEN <<>>
    ELSE IF \A k \in 1..Len(splitPaths) : splitPaths[k][i] = splitPaths[1][i]
         THEN <<splitPaths[1][i]>> \o CommonSegments(splitPaths, i + 1, minLen)
         ELSE <<>>

\* lines 38-53
commonPrefixOf(paths) ==
    CommonSegments(paths, 1, Min({Len(paths[k]) : k \in 1..Len(paths)}))

\* lines 60-61: the parts of a path below the prefix of k segments
relativePath(path, k) == StripLeadingSlash(SubstringAfter(path, k))

\* lines 67-81: parts.forEach below the root; a node is keyed by the
\* segments that lead to it.
RECURSIVE InsertPartsMarkingEveryPart(_, _, _, _, _)
InsertPartsMarkingEveryPart(nodes, parts, idx, path, status) ==
    IF idx > Len(parts) THEN nodes
    ELSE LET key == SubSeq(parts, 1, idx)
             node == [name |-> parts[idx], fullPath |-> path, status |-> status]
             next == [x \in DOMAIN nodes \cup {key} |->
                         IF x = key THEN node ELSE nodes[x]]
         IN  InsertPartsMarkingEveryPart(next, parts, idx + 1, path, status)

RECURSIVE InsertParts(_, _, _, _, _)
InsertParts(nodes, parts, idx, path, status) ==
    IF idx > Len(parts) THEN nodes
    ELSE LET key == SubSeq(parts, 1, idx)
             created == IF key \in DOMAIN nodes THEN nodes[key]
                        ELSE [name |-> parts[idx], fullPath |-> <<>>,
                              status |-> Undefined]
             node == IF idx = Len(parts)
                     THEN [created EXCEPT !.fullPath = path, !.status = status]
                     ELSE created
             next == [x \in DOMAIN nodes \cup {key} |->
                         IF x = key THEN node ELSE nodes[x]]
         IN  InsertParts(next, parts, idx + 1, path, status)

\* lines 58-82: paths.forEach
RECURSIVE InsertPaths(_, _, _, _)
InsertPaths(nodes, paths, k, cs) ==
    IF paths = <<>> THEN nodes
    ELSE LET path == Head(paths)
             parts == relativePath(path, k)
         IN  InsertPaths(
                 IF parts = <<"">> THEN nodes
                 ELSE InsertParts(nodes, parts, 1, path, fileStatusMap(cs, path)),
                 Tail(paths), k, cs)

\* buildFileTree(fileStatusMap) for the changes cs (lines 32-85).  A node
\* without fullPath carries <<>>, which no path equals.
buildFileTree(cs) ==
    LET paths == MapKeys(cs, <<>>)
    IN  IF paths = <<>>
        THEN [built |-> TRUE, threw |-> FALSE, nodes |-> <<>>, prefix |-> <<"">>,
              order |-> <<>>]
        ELSE LET commonPrefix == commonPrefixOf(paths)
             IN  [built |-> TRUE, threw |-> FALSE,
                  nodes |-> InsertPaths(<<>>, paths, Len(commonPrefix), cs),
                  prefix |-> Join(commonPrefix), order |-> <<>>]

\* The comparator of lines 151-156 and 313-317, for the nodes with keys a, b.
CompareChangeNodesByName(nodes, a, b) ==
    LocaleCompare(nodes[a].name, nodes[b].name)

CompareChangeNodes(nodes, a, b) ==
    LET aIsFile == nodes[a].fullPath # <<>>
        bIsFile == nodes[b].fullPath # <<>>
    IN  IF aIsFile = bIsFile THEN LocaleCompare(nodes[a].name, nodes[b].name)
        ELSE IF aIsFile THEN 1 ELSE -1

\* Array.prototype.sort with that comparator (a stable sort): the keys are
\* taken in their order and each is placed after the ones not greater.
RECURSIVE SortChangeNodes(_, _)
SortChangeNodes(nodes, keys) ==
    IF keys = <<>> THEN <<>>
    ELSE LET k == keys[Len(keys)]
             sorted == SortChangeNodes(nodes, SubSeq(keys, 1, Len(keys) - 1))
             n == Cardinality({i \in 1..Len(sorted) :
                                 CompareChangeNodes(nodes, sorted[i], k) <= 0})
         IN  SubSeq(sorted, 1, n) \o <<k>> \o SubSeq(sorted, n + 1, Len(sorted))

\* What FileChangeModal displays below the root (lines 313-325) and below
\* every node that has children (lines 94 and 149-166, every node starts
\* open): for each parent the keys of its children in display order.
ChangesDisplayOrder(cs, nodes) ==
    LET paths == MapKeys(cs, <<>>)
        k == IF paths = <<>> THEN 0 ELSE Len(commonPrefixOf(paths))
        Inserted(parts) == parts # <<"">>
        partsList == SelectSeq([i \in 1..Len(paths) |-> relativePath(paths[i], k)],
                               Inserted)
        hasChildren == {SubSeq(key, 1, Len(key) - 1) : key \in DOMAIN nodes}
    IN  [parent \in {<<>>} \cup hasChildren |->
            SortChangeNodes(nodes, ChildKeys(partsList, parent, <<>>))]

\* FileChangeModal renders with its changes prop (useMemo, lines 233-247).
RenderFileChangeModal ==
    /\ ~fileTree.built
    /\ LET tree == buildFileTree(changes)
       IN  fileTree' = [tree EXCEPT
                           !.order = ChangesDisplayOrder(changes, tree.nodes)]
    /\ UNCHANGED <<changes, files, survivalTree, expandedFolders>>
    /\ UNCHANGED <<pdVars, tagVars, detailVars, chartVars, viewVars>>

(***************************************************************************)
(* CodeSurvivalFileTree                                                    *)
(* (src/frontend/src/components/CodeSurvivalFileTree.tsx).                 *)
(* A FileStat is modelled by its path and status; file_stats holds one     *)
(* entry per path.                                                         *)
(***************************************************************************)
FileStatuses == {"perfect"}
FileStats == [path : Paths, status : FileStatuses]
FileLists ==
    {fs \in UNION {[1..n -> FileStats] : n \in 0..MaxFiles} :
        \A i, j \in 1..Len(fs) : fs[i].path = fs[j].path => i = j}

\* lines 35-51: parts.forEach for one file.  level is currentLevel: the key
\* of the node whose children object it is (<<>> for root), or undefined.
\* Reading a property of undefined throws a TypeError.
RECURSIVE SurvivalParts(_, _, _, _, _)
SurvivalParts(nodes, file, index, level, defined) ==
    LET parts == file.path
    IN  IF index > Len(parts) THEN [threw |-> FALSE, nodes |-> nodes]
        ELSE IF ~defined THEN [threw |-> TRUE, nodes |-> nodes]
        ELSE LET key == Append(level, parts[index])
                 isFile == index = Len(parts)
                 next == IF key \in DOMAIN nodes THEN nodes
                         ELSE [x \in DOMAIN nodes \cup {key} |->
                                 IF x = key
                                 THEN [name |-> parts[index],
                                       path |-> Join(SubSeq(parts, 1, index)),
                                       type |-> IF isFile THEN "file" ELSE "folder",
                                       fileStat |-> IF isFile THEN <<file>> ELSE <<>>]
                                 ELSE nodes[x]]
             IN  IF index < Len(parts)
                 THEN SurvivalParts(next, file, index + 1, key,
                                    next[key].type = "folder")
                 ELSE SurvivalParts(next, file, index + 1, level, defined)

\* lines 31-52: files.forEach
RECURSIVE SurvivalFiles(_, _)
SurvivalFiles(nodes, fs) ==
    IF fs = <<>> THEN [threw |-> FALSE, nodes |-> nodes]
    ELSE LET r == SurvivalParts(nodes, Head(fs), 1, <<>>, TRUE)
         IN  IF r.threw THEN r ELSE SurvivalFiles(r.nodes, Tail(fs))

\* The comparator of lines 66-72, for the nodes with keys a, b.
CompareSurvivalNodesByName(nodes, a, b) ==
    LocaleCompare(nodes[a].name, nodes[b].name)

CompareSurvivalNodes(nodes, a, b) ==
    IF nodes[a].type # nodes[b].type
    THEN IF nodes[a].type = "folder" THEN -1 ELSE 1
    ELSE LocaleCompare(nodes[a].name, nodes[b].name)

\* .sort(...) of line 66 (a stable sort): the keys are taken in their order
\* and each is placed after the ones not greater.
RECURSIVE SortSurvivalNodes(_, _)
SortSurvivalNodes(nodes, keys) ==
    IF keys = <<>> THEN <<>>
    ELSE LET k == keys[Len(keys)]
             sorted == SortSurvivalNodes(nodes, SubSeq(keys, 1, Len(keys) - 1))
             n == Cardinality({i \in 1..Len(sorted) :
                                 CompareSurvivalNodes(nodes, sorted[i], k) <= 0})
         IN  SubSeq(sorted, 1, n) \o <<k>> \o SubSeq(sorted, n + 1, Len(sorted))

\* convertToArray (lines 55-73), applied to root and to the children of
\* every folder: for each parent the keys of its children, sorted.
convertToArray(fs, nodes) ==
    LET partsList == [i \in 1..Len(fs) |-> fs[i].path]
        folders == {k \in DOMAIN nodes : nodes[k].type = "folder"}
    IN  [parent \in {<<>>} \cup folders |->
            SortSurvivalNodes(nodes, ChildKeys(partsList, parent, <<>>))]

\* buildFileTree(files) (lines 28-76); a node is keyed by the segments that
\* lead to it, fileStat is <<file>> on a file node and <<>> on a folder.
buildSurvivalFileTree(fs) ==
    LET r == SurvivalFiles(<<>>, fs)
    IN  [built |-> TRUE, threw |-> r.threw,
         nodes |-> IF r.threw THEN <<>> ELSE r.nodes, prefix |-> <<"">>,
         order |-> IF r.threw THEN <<>> ELSE convertToArray(fs, r.nodes)]

\* lines 209-211: the paths of the folders among the top-level nodes
FirstLevelFolders(tree) ==
    {tree.nodes[k].path : k \in {x \in Range(tree.order[<<>>]) :
                                    tree.nodes[x].type = "folder"}}

\* The default-expand effect (lines 208-216) after a render that built
\* tree, with prev the expanded set before it.
DefaultExpandAlways(tree, prev) == FirstLevelFolders(tree)

DefaultExpand(tree, prev) ==
    IF FirstLevelFolders(tree) # {} THEN FirstLevelFolders(tree) ELSE prev

\* CodeSurvivalFileTree renders with its files prop (useMemo, line 193) and
\* its effect runs; a builder that throws ends the render.
RenderCodeSurvivalFileTree ==
    /\ ~survivalTree.built
    /\ survivalTree' = buildSurvivalFileTree(files)
    /\ expandedFolders' = IF survivalTree'.threw THEN expandedFolders
                          ELSE DefaultExpand(survivalTree', expandedFolders)
    /\ UNCHANGED <<changes, fileTree, files>>
    /\ UNCHANGED <<pdVars, tagVars, detailVars, chartVars, viewVars>>

\* A FileStat with the given path.
FileStatAt(path) == [path |-> path, status |-> "perfect"]

\* File lists the parent passes: none, a top-level file, one folder, two
\* folders, a nested folder next to a file, two nested folders, two folders
\* within one, a chain of three folders, and a file followed by a file below
\* it.
FilesGiven ==
    {<<>>,
     <<FileStatAt(<<"a">>)>>,
     <<FileStatAt(<<"a", "b">>)>>,
     <<FileStatAt(<<"a", "b">>), FileStatAt(<<"b", "a">>)>>,
     <<FileStatAt(<<"a", "a", "b">>), FileStatAt(<<"b">>)>>,
     <<FileStatAt(<<"a", "a", "b">>), FileStatAt(<<"b", "a", "b">>)>>,
     <<FileStatAt(<<"a", "a", "a">>), FileStatAt(<<"a", "b", "a">>),
       FileStatAt(<<"b">>)>>,
     <<FileStatAt(<<"b", "b", "b", "a">>)>>,
     <<FileStatAt(<<"a">>), FileStatAt(<<"a", "b">>)>>}

\* The files prop changes: the tree is rebuilt (line 193) and the effect of
\* lines 208-216 runs.  A builder that throws ends the render.
FilesChange(fs) ==
    /\ survivalTree.built /\ ~survivalTree.threw
    /\ files' = fs
    /\ survivalTree' = buildSurvivalFileTree(fs)
    /\ expandedFolders' = IF survivalTree'.threw THEN expandedFolders
                          ELSE DefaultExpand(survivalTree', expandedFolders)
    /\ UNCHANGED <<changes, fileTree>>
    /\ UNCHANGED <<pdVars, tagVars, detailVars, chartVars, viewVars>>

\* A folder row is rendered when every folder above it is expanded
\* (line 167); top-level rows always are.
FolderShown(key) ==
    /\ survivalTree.built /\ ~survivalTree.threw
    /\ key \in DOMAIN survivalTree.nodes
    /\ survivalTree.nodes[key].type = "folder"
    /\ \A j \in 1..(Len(key) - 1) :
          survivalTree.nodes[SubSeq(key, 1, j)].path \in expandedFolders

\* toggleFolder(path) (lines 195-205), from a click on the row of the
\* folder with that key (lines 98-100).
toggleFolder(key) ==
    /\ FolderShown(key)
    /\ LET path == survivalTree.nodes[key].path
       IN  expandedFolders' = IF path \in expandedFolders
                              THEN expandedFolders \ {path}
                              ELSE expandedFolders \cup {path}
    /\ UNCHANGED <<changes, fileTree, files, survivalTree>>
    /\ UNCHANGED <<pdVars, tagVars, detailVars, chartVars, viewVars>>

(***************************************************************************)
(* OneShotDetailsModal (src/unnamed/part_001:28-80): processedStats, the    *)
(* file list handed to CodeSurvivalFileTree with the common directory      *)
(* prefix removed from every path.                                         *)
(***************************************************************************)
\* The values of the stats prop: null, or statistics with their file_stats.
StatsProps ==
    {[isNull |-> TRUE, file_stats |-> <<>>]}
        \cup {[isNull |-> FALSE, file_stats |-> fs] : fs \in FileLists}

NotProcessed == [done |-> FALSE, isNull |-> TRUE, commonPrefix |-> <<"">>,
                 file_stats |-> <<>>]

\* The number of characters of the string with the segments segs.
RECURSIVE StringLength(_)
StringLength(segs) ==
    IF Len(segs) = 1 THEN Len(segs[1])
    ELSE Len(Head(segs)) + 1 + StringLength(Tail(segs))

\* str.lastIndexOf('/'): the index of the '/' before the last segment.
LastIndexOfSlash(str) ==
    IF Len(str) = 1 THEN -1
    ELSE StringLength(SubSeq(str, 1, Len(str) - 1))

\* The loop of lines 59-66: the parts, from index i on, that all paths share
\* with the first one; the loop stops before index minLength - 1.
RECURSIVE CommonPartsToLast(_, _, _)
CommonPartsToLast(splitPaths, i, minLength) ==
    IF i > minLength THEN <<>>
    ELSE IF \A k \in 1..Len(splitPaths) : splitPaths[k][i] = splitPaths[1][i]
         THEN <<splitPaths[1][i]>> \o CommonPartsToLast(splitPaths, i + 1, minLength)
         ELSE <<>>

RECURSIVE CommonParts(_, _, _)
CommonParts(splitPaths, i, minLength) ==
    IF i > minLength - 1 THEN <<>>
    ELSE IF \A k \in 1..Len(splitPaths) : splitPaths[k][i] = splitPaths[1][i]
         THEN <<splitPaths[1][i]>> \o CommonParts(splitPaths, i + 1, minLength)
         ELSE <<>>

\* getCommonPrefix (lines 46-69).  x.join('/') + '/' is x with an empty
\* segment appended; substring(0, lastSlash + 1) is the string up to and
\* including its last '/'.
getCommonPrefix(strs) ==
    IF Len(strs) = 0 THEN <<"">>
    ELSE IF Len(strs) = 1
    THEN IF LastIndexOfSlash(strs[1]) > 0
         THEN Append(SubSeq(strs[1], 1, Len(strs[1]) - 1), "")
         ELSE <<"">>
    ELSE LET minLength == Min({Len(strs[k]) : k \in 1..Len(strs)})
             commonParts == CommonParts(strs, 1, minLength)
         IN  IF Len(commonParts) > 0 THEN Append(commonParts, "") ELSE <<"">>

\* str.replace(pat, '') for a non-empty pat that ends with '/': the first
\* occurrence of pat is removed.  With segments of at most one character an
\* occurrence begins at the start of segment i (when pat[1] = str[i]) or at
\* the '/' that follows it (when pat[1] is empty); what is left of segment i
\* then joins the segment that followed the occurrence.
ReplaceFirst(str, pat) ==
    LET k == Len(pat) - 1
        occurrences ==
            {i \in 1..(Len(str) - k) :
                /\ pat[1] = "" \/ pat[1] = str[i]
                /\ \A j \in 2..k : pat[j] = str[i + j - 1]}
    IN  IF occurrences = {} THEN str
        ELSE LET i == Min(occurrences)
                 kept == IF pat[1] = str[i] THEN "" ELSE str[i]
             IN  SubSeq(str, 1, i - 1) \o <<kept \o str[i + k]>>
                     \o SubSeq(str, i + k + 1, Len(str))

\* processedStats (lines 38-80) for the stats prop st.
ProcessStats(st) ==
    IF st.isNull
    THEN [done |-> TRUE, isNull |-> TRUE, commonPrefix |-> <<"">>,
          file_stats |-> <<>>]
    ELSE LET paths == [i \in 1..Len(st.file_stats) |-> st.file_stats[i].path]
             commonPrefix == getCommonPrefix(paths)
         IN  [done |-> TRUE, isNull |-> FALSE, commonPrefix |-> commonPrefix,
              file_stats |->
                 [i \in 1..Len(st.file_stats) |->
                     [st.file_stats[i] EXCEPT !.path =
                         IF commonPrefix # <<"">>
                         THEN ReplaceFirst(@, commonPrefix) ELSE @]]]

\* OneShotDetailsModal renders with its stats prop.
RenderOneShotDetailsModal ==
    /\ ~processedStats.done
    /\ processedStats' = ProcessStats(stats)
    /\ UNCHANGED stats
    /\ UNCHANGED <<pdVars, tagVars, treeVars, chartVars, viewVars>>

(***************************************************************************)
(* The token usage chart of SessionStatsModal                              *)
(* (src/frontend/src/components/SessionStatsModal.tsx:14-29, 97) and of    *)
(* SessionAnalyticsModal (src/unnamed/part_002:17-33, 176).                *)
(* token_usage_history is modelled by what it says: absent, the empty      *)
(* string, a text that is not JSON, or the JSON text of a value.  A field  *)
(* of a record is <<>> when missing and <<n>> when it holds the number n;  *)
(* reading a field of a number gives undefined, which is <<>> as well.     *)
(***************************************************************************)
TurnRecords ==
    [kind : {"record"}, input : {<<>>, <<0>>, <<5>>}, output : {<<>>, <<3>>},
     total : {<<>>, <<8>>}, timestamp : {<<>>, <<1>>}]

\* A null inside the JSON array.
NullItem == [kind |-> "null", input |-> <<>>, output |-> <<>>, total |-> <<>>,
             timestamp |-> <<>>]

\* A number inside the JSON array.
NumberItem == [kind |-> "number", input |-> <<>>, output |-> <<>>,
               total |-> <<>>, timestamp |-> <<>>]

HistoryItems == TurnRecords \cup {NullItem, NumberItem}

TokenHistories ==
    {[kind |-> k, items |-> <<>>] :
        k \in {"absent", "empty", "invalid", "null", "number", "string", "object"}}
    \cup {[kind |-> "array", items |-> items] :
            items \in UNION {[1..n -> HistoryItems] : n \in 0..MaxTurns}}

NoChart == [rendered |-> FALSE, threw |-> FALSE, data |-> <<>>, chartShown |-> FALSE]

Threw == [threw |-> TRUE, data |-> <<>>]

\* JSON.parse(text): a SyntaxError for a text that is not JSON, otherwise
\* the value the text denotes.
JSONParse(text) ==
    IF text.kind = "invalid" THEN [threw |-> TRUE, value |-> text]
    ELSE [threw |-> FALSE, value |-> text]

\* The catch block (SessionStatsModal.tsx:25-28, part_002:29-32).
CatchRethrows(r) == r

Catch(r) == IF r.threw THEN [threw |-> FALSE, data |-> <<>>] ELSE r

\* v || 0 for a field that is missing or a number
OrZero(v) == IF v = <<>> \/ v = <<0>> THEN <<0>> ELSE v

\* SessionStatsModal.tsx:18-24, the point of the i-th record (i from 1)
StatsPointFromZero(h, i) ==
    [name |-> [label |-> "Turn", turn |-> i - 1],
     input |-> h.input, output |-> h.output, total |-> h.total,
     time |-> IF h.timestamp = <<>> THEN "Invalid Date" ELSE "time"]

StatsPoint(h, i) ==
    [name |-> [label |-> "Turn", turn |-> i],
     input |-> h.input, output |-> h.output, total |-> h.total,
     time |-> IF h.timestamp = <<>> THEN "Invalid Date" ELSE "time"]

\* part_002:21-27
AnalyticsPoint(h, i) ==
    [name |-> [label |-> "analytics.turn", turn |-> i],
     input |-> OrZero(h.input), output |-> OrZero(h.output),
     total |-> OrZero(h.total),
     time |-> IF h.timestamp = <<>> THEN "" ELSE "time"]

\* history.map((h, i) => ...) in the given modal: a TypeError when history
\* has no map method (it is not an array) and when the callback reads a
\* property of null.
MapHistory(history, modal) ==
    IF history.kind # "array" THEN Threw
    ELSE IF \E i \in 1..Len(history.items) : history.items[i].kind = "null"
    THEN Threw
    ELSE [threw |-> FALSE,
          data |-> [i \in 1..Len(history.items) |->
                      IF modal = "SessionStatsModal"
                      THEN StatsPoint(history.items[i], i)
                      ELSE AnalyticsPoint(history.items[i], i)]]

\* chartData of either modal: the early return on a falsy string, then
\* try { JSON.parse(...).map(...) } catch { return [] }.
ChartDataOf(th, modal) ==
    IF th.kind \in {"absent", "empty"} THEN [threw |-> FALSE, data |-> <<>>]
    ELSE Catch(LET parsed == JSONParse(th)
               IN  IF parsed.threw THEN Threw
                   ELSE MapHistory(parsed.value, modal))

\* What the modal shows: the chart when chartData.length > 0, otherwise the
\* empty state (SessionStatsModal.tsx:97, part_002:176).
Chart(r) == [rendered |-> TRUE, threw |-> r.threw, data |-> r.data,
             chartShown |-> ~r.threw /\ Len(r.data) > 0]

\* SessionStatsModal renders with its session prop.
RenderSessionStatsModal ==
    /\ ~statsChart.rendered
    /\ statsChart' = Chart(ChartDataOf(tokenUsageHistory, "SessionStatsModal"))
    /\ UNCHANGED <<tokenUsageHistory, analyticsChart>>
    /\ UNCHANGED <<pdVars, tagVars, treeVars, detailVars, viewVars>>

\* SessionAnalyticsModal renders with its session prop.
RenderSessionAnalyticsModal ==
    /\ ~analyticsChart.rendered
    /\ analyticsChart' = Chart(ChartDataOf(tokenUsageHistory, "SessionAnalyticsModal"))
    /\ UNCHANGED <<tokenUsageHistory, statsChart>>
    /\ UNCHANGED <<pdVars, tagVars, treeVars, detailVars, viewVars>>

(***************************************************************************)
(* ProjectDetails, the file-change modal (src/unnamed/part_002:254-256,    *)
(* 292-302, 585-592, 692-699).                                             *)
(***************************************************************************)
\* api.getSessionChanges(s): file_change_count(s) changes; none for a3.
ChangesOf(s) ==
    CASE s = "a1" -> <<[path |-> <<"a">>, type |-> "write"]>>
      [] s = "a2" -> <<[path |-> <<"a", "b">>, type |-> "write"],
                       [path |-> <<"a", "b">>, type |-> "edit"],
                       [path |-> <<"b">>, type |-> "edit"]>>
      [] s = "b1" -> <<[path |-> <<"b", "a">>, type |-> "edit"],
                       [path |-> <<"b", "b">>, type |-> "write"]>>
      [] OTHER -> <<>>

ViewsInFlight ==
    pendingChanges["a1"] + pendingChanges["a2"] + pendingChanges["a3"]
        + pendingChanges["b1"]

\* handleViewChanges up to its await (lines 292-297), from the view-changes
\* button of a session row (585-592).  The button is in the main view, for a
\* session with file changes, and the open modal's backdrop covers it.
handleViewChanges(s) ==
    /\ View = "main"
    /\ s \in sessions
    /\ FileChangeCount(s) > 0
    /\ ~modalOpen
    /\ ViewsInFlight < MaxViews
    /\ selectedSessionId' = s
    /\ fileChanges' = <<>>
    /\ modalOpen' = TRUE
    /\ pendingChanges' = [pendingChanges EXCEPT ![s] = @ + 1]
    /\ UNCHANGED <<pdVars, tagVars, treeVars, detailVars, chartVars>>

\* api.getSessionChanges fulfils for session s (lines 297-298).
ChangesResolved(s) ==
    /\ pendingChanges[s] > 0
    /\ pendingChanges' = [pendingChanges EXCEPT ![s] = @ - 1]
    /\ fileChanges' = ChangesOf(s)
    /\ UNCHANGED <<selectedSessionId, modalOpen>>
    /\ UNCHANGED <<pdVars, tagVars, treeVars, detailVars, chartVars>>

\* api.getSessionChanges rejects for session s (lines 299-301).
ChangesRejected(s) ==
    /\ pendingChanges[s] > 0
    /\ pendingChanges' = [pendingChanges EXCEPT ![s] = @ - 1]
    /\ UNCHANGED <<selectedSessionId, fileChanges, modalOpen>>
    /\ UNCHANGED <<pdVars, tagVars, treeVars, detailVars, chartVars>>

\* onClose of FileChangeModal (line 695), which is rendered in the main
\* view once a session has been selected.
CloseModal ==
    /\ View = "main"
    /\ selectedSessionId # Null
    /\ modalOpen
    /\ modalOpen' = FALSE
    /\ UNCHANGED <<selectedSessionId, fileChanges, pendingChanges>>
    /\ UNCHANGED <<pdVars, tagVars, treeVars, detailVars, chartVars>>

\* State after the component is mounted with projectName = "A": the useState
\* initial values (248-273) and the first run of the initial-load effect.
PDInit ==
    /\ projectName = "A"
    /\ details = Null
    /\ sessions = {}
    /\ loading = TRUE
    /\ error = Null
    /\ oneShotStats = NoRecord
    /\ loadingStats = NoRecord
    /\ autoLoadTriggered = FALSE
    /\ pendingLoads = [NoLoads EXCEPT !["A"] = 1]
    /\ pendingStats = NoRequests

TagInit ==
    /\ initialTags = <<>>
    /\ tags = <<>>
    /\ isAdding = FALSE
    /\ newTagName = ""
    /\ pendingAdds = NoTagCalls
    /\ pendingRemoves = NoTagCalls
    /\ tagsChangeCalls = 0
    /\ consoleLog = {}

TreeInit ==
    /\ changes = <<>>
    /\ fileTree = NotBuilt
    /\ files = <<>>
    /\ survivalTree = NotBuilt
    /\ expandedFolders = {}

DetailInit ==
    /\ stats = [isNull |-> TRUE, file_stats |-> <<>>]
    /\ processedStats = NotProcessed

ChartInit ==
    /\ tokenUsageHistory = [kind |-> "absent", items |-> <<>>]
    /\ statsChart = NoChart
    /\ analyticsChart = NoChart

ViewInit ==
    /\ selectedSessionId = Null
    /\ fileChanges = <<>>
    /\ modalOpen = FALSE
    /\ pendingChanges = NoRequests

Init == PDInit /\ TagInit /\ TreeInit /\ DetailInit /\ ChartInit /\ ViewInit

Next ==
    \/ \E p \in Projects : OpenProject(p)
    \/ \E p \in Projects : LoadResolved(p)
    \/ \E p \in Projects, msg \in ErrorMessages : LoadRejected(p, msg)
    \/ \E s \in SessionIds, v \in StatValues : StatsResolved(s, v)
    \/ \E s \in SessionIds : StatsRejected(s)
    \/ \E s \in SessionIds : RetryClick(s)

Spec == Init /\ [][Next]_vars

NextTags ==
    \/ \E list \in TagLists : InitialTagsChange(list)
    \/ StartAdding
    \/ CancelAdding
    \/ \E n \in TagInputs : TypeTagName(n)
    \/ handleAddTag
    \/ \E n \in TagNames : AddTagFulfilled(n)
    \/ \E n \in TagNames : AddTagRejected(n)
    \/ \E t \in TagNames : handleRemoveTag(t)
    \/ \E t \in TagNames : RemoveTagFulfilled(t)
    \/ \E t \in TagNames : RemoveTagRejected(t)

SpecTags == Init /\ [][NextTags]_vars

\* FileChangeModal is given any bounded list of changes and renders.
InitChanges ==
    /\ PDInit /\ TagInit /\ DetailInit /\ ChartInit /\ ViewInit
    /\ changes \in ChangeLists
    /\ fileTree = NotBuilt
    /\ files = <<>>
    /\ survivalTree = NotBuilt
    /\ expandedFolders = {}

NextChanges == RenderFileChangeModal

SpecChanges == InitChanges /\ [][NextChanges]_vars

\* CodeSurvivalFileTree is given any bounded list of files and renders.
InitSurvival ==
    /\ PDInit /\ TagInit /\ DetailInit /\ ChartInit /\ ViewInit
    /\ changes = <<>>
    /\ fileTree = NotBuilt
    /\ files \in FileLists
    /\ survivalTree = NotBuilt
    /\ expandedFolders = {}

NextSurvival == RenderCodeSurvivalFileTree

SpecSurvival == InitSurvival /\ [][NextSurvival]_vars

\* Both trees are given the same bounded list of distinct paths and render.
InitOrder ==
    /\ PDInit /\ TagInit /\ DetailInit /\ ChartInit /\ ViewInit
    /\ files \in FileLists
    /\ changes = [i \in 1..Len(files) |-> [path |-> files[i].path, type |-> "edit"]]
    /\ fileTree = NotBuilt
    /\ survivalTree = NotBuilt
    /\ expandedFolders = {}

NextOrder == RenderFileChangeModal \/ RenderCodeSurvivalFileTree

SpecOrder == InitOrder /\ [][NextOrder]_vars

\* CodeSurvivalFileTree is mounted with one of the lists of FilesGiven; then
\* folders are toggled and the parent passes other lists.
InitTree ==
    /\ PDInit /\ TagInit /\ DetailInit /\ ChartInit /\ ViewInit
    /\ changes = <<>>
    /\ fileTree = NotBuilt
    /\ files \in FilesGiven
    /\ survivalTree = NotBuilt
    /\ expandedFolders = {}

NextTree ==
    \/ RenderCodeSurvivalFileTree
    \/ \E fs \in FilesGiven : FilesChange(fs)
    \/ \E key \in DOMAIN survivalTree.nodes : toggleFolder(key)

SpecTree == InitTree /\ [][NextTree]_vars

\* OneShotDetailsModal is given any bounded stats prop and renders.
InitDetails ==
    /\ PDInit /\ TagInit /\ TreeInit /\ ChartInit /\ ViewInit
    /\ stats \in StatsProps
    /\ processedStats = NotProcessed

NextDetails == RenderOneShotDetailsModal

SpecDetails == InitDetails /\ [][NextDetails]_vars

\* The two analytics modals are given a session with any bounded
\* token_usage_history and render.
InitChart ==
    /\ PDInit /\ TagInit /\ TreeInit /\ DetailInit /\ ViewInit
    /\ tokenUsageHistory \in TokenHistories
    /\ statsChart = NoChart
    /\ analyticsChart = NoChart

NextChart ==
    \/ RenderSessionStatsModal
    \/ RenderSessionAnalyticsModal

SpecChart == InitChart /\ [][NextChart]_vars

\* ProjectDetails with the file-change modal.
NextView ==
    \/ \E p \in Projects : OpenProject(p)
    \/ \E p \in Projects : LoadResolved(p)
    \/ \E p \in Projects, msg \in ErrorMessages : LoadRejected(p, msg)
    \/ \E s \in SessionIds, v \in StatValues : StatsResolved(s, v)
    \/ \E s \in SessionIds : StatsRejected(s)
    \/ \E s \in SessionIds : RetryClick(s)
    \/ \E s \in SessionIds : handleViewChanges(s)
    \/ \E s \in SessionIds : ChangesResolved(s)
    \/ \E s \in SessionIds : ChangesRejected(s)
    \/ CloseModal

SpecView == Init /\ [][NextView]_vars

TypeOK ==
    /\ projectName \in Projects
    /\ details \in Projects \cup {Null}
    /\ sessions \subseteq SessionIds
    /\ loading \in BOOLEAN
    /\ error \in ErrorMessages \cup {Null}
    /\ oneShotStats \in [SessionIds -> StatValues \cup {Undefined}]
    /\ loadingStats \in [SessionIds -> {Undefined, "true", "false"}]
    /\ autoLoadTriggered \in BOOLEAN
    /\ pendingLoads \in [Projects -> 0..MaxLoads]
    /\ pendingStats \in [SessionIds -> 0..MaxPending]

(***************************************************************************)
(* Claims about ProjectDetails, checked under Spec.                        *)
(***************************************************************************)

\* C1 (as stated): whenever a load of the currently opened project completes
\* successfully, every session of that project with file_change_count > 0 is
\* afterwards loaded or has a statistics request in flight (a request was
\* started for each one that was neither).
C1_AutoLoadForOpenedProject ==
    [][\A p \in Projects :
         (LoadResolved(p) /\ p = projectName) =>
            \A s \in SessionsOf(p) :
               FileChangeCount(s) > 0 =>
                  (oneShotStats'[s] # Undefined \/ pendingStats'[s] > 0)]_vars

\* C2: a completion writes its payload into the entry of its own session id
\* and leaves every other entry as it was, and for any two requests in flight
\* for distinct sessions both orders of applying their results give the same
\* oneShotStats mapping.
C2_CompletionsCommute ==
    /\ [][\A s \in SessionIds, v \in StatValues :
            StatsResolved(s, v) =>
               /\ oneShotStats'[s] = v
               /\ \A x \in SessionIds \ {s} : oneShotStats'[x] = oneShotStats[x]]_vars
    /\ [](\A s1, s2 \in SessionIds, v1, v2 \in StatValues :
            (s1 # s2 /\ pendingStats[s1] > 0 /\ pendingStats[s2] > 0) =>
               ApplyStats(ApplyStats(oneShotStats, s1, v1), s2, v2)
                 = ApplyStats(ApplyStats(oneShotStats, s2, v2), s1, v1))

\* C2 witness: one result has been applied while the result of another
\* session is applied too, with a different payload.
C2_Witness ==
    /\ oneShotStats["a1"] = "stats1"
    /\ oneShotStats["a2"] = "stats2"
    /\ pendingStats["b1"] > 0

\* C3: a request is started only for a session that has no statistics and no
\* request in flight, so no session ever has two requests in flight or a
\* request in flight next to a loaded entry, and a loaded entry is never
\* removed or replaced.
C3_AtMostOneResultPerSession ==
    /\ [](\A s \in SessionIds :
            /\ pendingStats[s] <= 1
            /\ oneShotStats[s] # Undefined => pendingStats[s] = 0)
    /\ [][\A s \in SessionIds :
            /\ pendingStats'[s] > pendingStats[s] =>
                  (pendingStats[s] = 0 /\ oneShotStats[s] = Undefined)
            /\ oneShotStats[s] # Undefined => oneShotStats'[s] = oneShotStats[s]]_vars

\* C3 witness: project A is being opened again while a1 is loaded and the
\* request of a2 is still in flight.
C3_Witness ==
    /\ projectName = "A"
    /\ pendingLoads["A"] > 0
    /\ autoLoadTriggered = FALSE
    /\ oneShotStats["a1"] # Undefined
    /\ pendingStats["a2"] = 1

\* The state a rejected statistics request leaves its session in.
Failed(s) ==
    /\ loadingStats[s] = "false"
    /\ oneShotStats[s] = Undefined
    /\ pendingStats[s] = 0

\* What the rejection handler itself does for session s.
RejectionHandled(s) ==
    /\ oneShotStats' = oneShotStats
    /\ loadingStats' = [loadingStats EXCEPT ![s] = "false"]
    /\ pendingStats' = [pendingStats EXCEPT ![s] = @ - 1]

\* C4 (as stated): a rejection leaves oneShotStats unchanged, clears the
\* loading flag of its session only, starts no request, and from then on a
\* new request for that session is started by a click on retry only.
C4_OnlyManualRetry ==
    [][\A s \in SessionIds :
         /\ StatsRejected(s) => RejectionHandled(s)
         /\ (Failed(s) /\ pendingStats'[s] > pendingStats[s]) => RetryClick(s)]_vars

\* C4 (amended): a rejection leaves oneShotStats unchanged, clears the loading
\* flag of its session only and starts no request; afterwards a new request
\* for that session is started by a click on retry or by a firing of the
\* automatic load (a project load settling while autoLoadTriggered is false,
\* which a change of projectName has reset).
C4_RetryOrNextAutoLoad ==
    [][\A s \in SessionIds :
         /\ StatsRejected(s) => RejectionHandled(s)
         /\ (Failed(s) /\ pendingStats'[s] > pendingStats[s]) =>
               \/ RetryClick(s)
               \/ (~autoLoadTriggered /\ autoLoadTriggered')]_vars

\* C4 witness: the request of a1 was rejected and the retry control is shown.
C4_Witness == Failed("a1") /\ RetryShown("a1") /\ autoLoadTriggered

\* C5: when a project load is rejected the message is recorded, loading is
\* cleared, the error view is shown, and details and sessions keep their values.
C5_LoadFailureShowsError ==
    [][\A p \in Projects, msg \in ErrorMessages :
         LoadRejected(p, msg) =>
            /\ error' = msg
            /\ loading' = FALSE
            /\ View' = "error"
            /\ details' = details
            /\ sessions' = sessions]_vars

\* C5 witness: a load failed after an earlier project had been loaded.
C5_Witness ==
    /\ error = "sessions failed"
    /\ View = "error"
    /\ details = "A"
    /\ sessions = SessionsOf("A")
    /\ projectName = "B"
    /\ LoadsInFlight = 0

(***************************************************************************)
(* Claims about TagManager, checked under SpecTags.                        *)
(***************************************************************************)

\* C6 (as stated): the local tag list is updated when the API call is made:
\* the step that calls api.addTag appends the tag, and the step that calls
\* api.removeTag removes it.
C6_OptimisticTagUpdate ==
    [][\A n \in TagNames :
         /\ pendingAdds'[n] > pendingAdds[n] => tags' = Append(tags, n)
         /\ pendingRemoves'[n] > pendingRemoves[n] => tags' = WithoutTag(tags, n)]_vars

\* C7: the handling of a rejected api.addTag or api.removeTag leaves the tag
\* list as it is, does not call onTagsChange, and makes no further call:
\* exactly the settled call leaves the calls in flight.
C7_RejectionLeavesTags ==
    [][\A n \in TagNames :
         /\ AddTagRejected(n) =>
               /\ tags' = tags
               /\ tagsChangeCalls' = tagsChangeCalls
               /\ pendingAdds' = [pendingAdds EXCEPT ![n] = @ - 1]
               /\ pendingRemoves' = pendingRemoves
         /\ RemoveTagRejected(n) =>
               /\ tags' = tags
               /\ tagsChangeCalls' = tagsChangeCalls
               /\ pendingRemoves' = [pendingRemoves EXCEPT ![n] = @ - 1]
               /\ pendingAdds' = pendingAdds]_vars

\* C7 witness: an add and a remove have both been rejected; the tag that was
\* to be removed is still listed and the one to be added is not.
C7_Witness ==
    /\ consoleLog = {"Failed to add tag", "Failed to remove tag"}
    /\ tags = <<"x">>
    /\ tagsChangeCalls = 0
    /\ TagCallsInFlight = 0

(***************************************************************************)
(* Claims about the file-tree builders.                                    *)
(***************************************************************************)

\* C8 (as stated), under SpecSurvival: neither builder raises an error on the
\* paths of the file list, whatever they are, and for the empty list the tree
\* is empty (and the prefix of FileChangeModal's builder is the empty string).
C8_BuildersNeverThrow ==
    LET cs == [i \in 1..Len(files) |-> [path |-> files[i].path, type |-> "edit"]]
    IN  /\ survivalTree.built =>
              /\ ~survivalTree.threw
              /\ files = <<>> => survivalTree.nodes = <<>>
        /\ ~buildFileTree(cs).threw
        /\ cs = <<>> => (buildFileTree(cs).nodes = <<>>
                         /\ buildFileTree(cs).prefix = <<"">>)

\* The distinct paths of the changes prop (fileStatusMap.size of them).
ChangedPaths == {changes[i].path : i \in 1..Len(changes)}

\* The file nodes of FileChangeModal's tree: isFile is !!node.fullPath.
FileNodes == {k \in DOMAIN fileTree.nodes : fileTree.nodes[k].fullPath # <<>>}

EveryPathOneFileNode ==
    /\ \A p \in ChangedPaths :
          /\ Cardinality({k \in FileNodes : fileTree.nodes[k].fullPath = p}) = 1
          /\ \A k \in FileNodes :
                fileTree.nodes[k].fullPath = p =>
                   fileTree.nodes[k].status = fileStatusMap(changes, p)
    /\ Cardinality(FileNodes) = Cardinality(ChangedPaths)

\* C9 (as stated), under SpecChanges: every distinct changed path is the
\* fullPath of exactly one file node, which carries the status recorded for
\* it, and there are as many file nodes as distinct changed paths.
C9_EveryPathOneFileNode == fileTree.built => EveryPathOneFileNode

\* No path is empty or ends with '/', and the list does not hold a path p
\* together with '/' + p.
PlainPaths ==
    /\ \A p \in ChangedPaths : p[Len(p)] # ""
    /\ \A p \in ChangedPaths : (<<"">> \o p) \notin ChangedPaths

\* C9 (amended), under SpecChanges: the same, for change lists in which no
\* path is empty or ends with '/' and no path p occurs together with '/' + p.
C9_PlainPathsOneFileNode ==
    (fileTree.built /\ PlainPaths) => EveryPathOneFileNode

\* C9 witness: the tree of a written a/a and an edited a/b, two file nodes
\* below the common prefix a.
C9_Witness ==
    /\ fileTree.built
    /\ PlainPaths
    /\ ChangedPaths = {<<"a", "a">>, <<"a", "b">>}
    /\ fileTree.prefix = <<"a">>
    /\ FileNodes = {<<"a">>, <<"b">>}
    /\ fileTree.nodes[<<"a">>].status = "write"
    /\ fileTree.nodes[<<"b">>].status = "edit"

\* C10 (as stated), under SpecSurvival: every file of the list is a node of
\* type 'file' with the file's path and the file as fileStat, and every
\* intermediate segment is a node of type 'folder' whose path is the join of
\* the segments leading to it.
C10_EveryFileIsAFileNode ==
    survivalTree.built =>
       \A i \in 1..Len(files) :
          LET parts == files[i].path
          IN  /\ parts \in DOMAIN survivalTree.nodes
              /\ survivalTree.nodes[parts].type = "file"
              /\ survivalTree.nodes[parts].path = parts
              /\ survivalTree.nodes[parts].fileStat = <<files[i]>>
              /\ \A j \in 1..(Len(parts) - 1) :
                    /\ SubSeq(parts, 1, j) \in DOMAIN survivalTree.nodes
                    /\ survivalTree.nodes[SubSeq(parts, 1, j)].type = "folder"
                    /\ survivalTree.nodes[SubSeq(parts, 1, j)].path
                          = Join(SubSeq(parts, 1, j))

\* The longest run of leading segments that all paths share, stopping short
\* of the last segment of the shortest path.
LongestSharedLeading(paths) ==
    LET minLen == Min({Len(paths[k]) : k \in 1..Len(paths)})
        Shared(n) == \A i, j \in 1..Len(paths) :
                        SubSeq(paths[i], 1, n) = SubSeq(paths[j], 1, n)
        longest == CHOOSE n \in 0..(minLen - 1) :
                      /\ Shared(n)
                      /\ \A m \in 0..(minLen - 1) : Shared(m) => m <= n
    IN  SubSeq(paths[1], 1, longest)

\* C11, under SpecChanges: for two or more paths the common prefix computed
\* by FileChangeModal's builder and by getCommonPrefix of OneShotDetailsModal
\* is the longest sequence of leading segments shared by all paths that does
\* not include the last segment of the shortest path (joined with '/', and
\* in getCommonPrefix followed by '/' when it is not empty).
C11_LongestSharedDirectoryPrefix ==
    LET paths == MapKeys(changes, <<>>)
    IN  (fileTree.built /\ Len(paths) >= 2) =>
           LET expected == LongestSharedLeading(paths)
           IN  /\ commonPrefixOf(paths) = expected
               /\ fileTree.prefix = Join(expected)
               /\ getCommonPrefix(paths) =
                     IF expected = <<>> THEN <<"">> ELSE Append(expected, "")

\* C11 witness: the paths a and a/b share their first segment, which is the
\* last segment of the shorter one, so the prefix is empty.
C11_Witness ==
    /\ fileTree.built
    /\ MapKeys(changes, <<>>) = <<<<"a">>, <<"a", "b">>>>
    /\ fileTree.prefix = <<"">>
    /\ <<"a">> \in FileNodes

\* The status C19 describes for path p of the changes prop.
WriteOrLatest(p) ==
    LET at == {i \in 1..Len(changes) : changes[i].path = p}
        last == CHOOSE i \in at : \A j \in at : j <= i
    IN  IF \E i \in at : changes[i].type = "write" THEN "write"
        ELSE changes[last].type

\* C19, under SpecChanges: the status recorded for a path is 'write' exactly
\* when at least one change of that path has type 'write', and otherwise it
\* is the type of the last change of that path; the file nodes of the tree
\* carry that status.
C19_WriteWinsElseLatest ==
    fileTree.built =>
       /\ \A p \in ChangedPaths :
             /\ fileStatusMap(changes, p) = WriteOrLatest(p)
             /\ fileStatusMap(changes, p) = "write"
                   <=> \E i \in 1..Len(changes) :
                          changes[i].path = p /\ changes[i].type = "write"
       /\ \A k \in FileNodes :
             fileTree.nodes[k].status = WriteOrLatest(fileTree.nodes[k].fullPath)

\* C19 witness: a/b was written and then edited, and its node shows 'write'.
C19_Witness ==
    /\ fileTree.built
    /\ changes = <<[path |-> <<"a", "b">>, type |-> "write"],
                   [path |-> <<"a", "b">>, type |-> "edit"]>>
    /\ fileTree.nodes[<<"b">>].status = "write"

(***************************************************************************)
(* Claims about OneShotDetailsModal, checked under SpecDetails.            *)
(***************************************************************************)

\* The string s followed by the string t.
Concat(s, t) ==
    SubSeq(s, 1, Len(s) - 1) \o <<s[Len(s)] \o t[1]>> \o Tail(t)

\* C20, under SpecDetails: the path displayed for a file is its original
\* path with the common prefix removed from its start, so the prefix
\* followed by the displayed path is the original path, and two files with
\* different original paths never get the same displayed path.
C20_PrefixRemovalIsInjective ==
    (processedStats.done /\ ~stats.isNull) =>
       /\ Len(processedStats.file_stats) = Len(stats.file_stats)
       /\ \A i \in 1..Len(stats.file_stats) :
             Concat(processedStats.commonPrefix, processedStats.file_stats[i].path)
                = stats.file_stats[i].path
       /\ \A i, j \in 1..Len(stats.file_stats) :
             stats.file_stats[i].path # stats.file_stats[j].path =>
                processedStats.file_stats[i].path # processedStats.file_stats[j].path

\* C20 witness: a/a and a/b are displayed as a and b below the prefix a/.
C20_Witness ==
    /\ processedStats.done
    /\ Len(stats.file_stats) = 2
    /\ stats.file_stats[1].path = <<"a", "a">>
    /\ stats.file_stats[2].path = <<"a", "b">>
    /\ processedStats.commonPrefix = <<"a", "">>
    /\ processedStats.file_stats[1].path = <<"a">>
    /\ processedStats.file_stats[2].path = <<"b">>

(***************************************************************************)
(* Claims about the token usage charts, checked under SpecChart.           *)
(***************************************************************************)

\* token_usage_history is absent or empty, is not JSON, or is the JSON of
\* something map() fails on: a value that is not an array, or an array that
\* holds a null.
Unmappable(th) ==
    \/ th.kind # "array"
    \/ \E i \in 1..Len(th.items) : th.items[i].kind = "null"

\* token_usage_history is the JSON of an array of records.
ListOfRecords(th) ==
    /\ th.kind = "array"
    /\ \A i \in 1..Len(th.items) : th.items[i].kind = "record"

\* C12, under SpecChart: in both modals computing chartData raises no error,
\* and when token_usage_history is absent, is not valid JSON, or parses to
\* something that cannot be mapped as a list of records, chartData is the
\* empty list and the modal shows the empty state instead of the chart.
C12_BadHistoryGivesEmptyChart ==
    /\ statsChart.rendered =>
          /\ ~statsChart.threw
          /\ Unmappable(tokenUsageHistory) =>
                (statsChart.data = <<>> /\ ~statsChart.chartShown)
    /\ analyticsChart.rendered =>
          /\ ~analyticsChart.threw
          /\ Unmappable(tokenUsageHistory) =>
                (analyticsChart.data = <<>> /\ ~analyticsChart.chartShown)

\* C12 witness: the history is a JSON array holding a record and a null; both
\* modals have rendered with an empty chartData.
C12_Witness ==
    /\ tokenUsageHistory.kind = "array"
    /\ Len(tokenUsageHistory.items) = 2
    /\ tokenUsageHistory.items[1].kind = "record"
    /\ tokenUsageHistory.items[2].kind = "null"
    /\ statsChart.rendered /\ statsChart.data = <<>>
    /\ analyticsChart.rendered /\ analyticsChart.data = <<>>

\* A missing value read as 0.
ZeroIfMissing(v) == IF v = <<>> THEN <<0>> ELSE v

\* C13, under SpecChart: when token_usage_history parses to a list of n
\* records, chartData has n points in the order of the records, and the i-th
\* point is labelled with turn i and carries the input, output and total of
\* the i-th record (a missing value is 0 in SessionAnalyticsModal).
C13_OnePointPerRecord ==
    ListOfRecords(tokenUsageHistory) =>
       LET items == tokenUsageHistory.items
       IN  /\ statsChart.rendered =>
                /\ Len(statsChart.data) = Len(items)
                /\ statsChart.chartShown <=> Len(items) > 0
                /\ \A i \in 1..Len(items) :
                      /\ statsChart.data[i].name.turn = i
                      /\ statsChart.data[i].input = items[i].input
                      /\ statsChart.data[i].output = items[i].output
                      /\ statsChart.data[i].total = items[i].total
           /\ analyticsChart.rendered =>
                /\ Len(analyticsChart.data) = Len(items)
                /\ analyticsChart.chartShown <=> Len(items) > 0
                /\ \A i \in 1..Len(items) :
                      /\ analyticsChart.data[i].name.turn = i
                      /\ analyticsChart.data[i].input = ZeroIfMissing(items[i].input)
                      /\ analyticsChart.data[i].output = ZeroIfMissing(items[i].output)
                      /\ analyticsChart.data[i].total = ZeroIfMissing(items[i].total)

\* C13 witness: two records, the first without input and the second with
\* input 5, charted by both modals.
C13_Witness ==
    /\ tokenUsageHistory.kind = "array"
    /\ Len(tokenUsageHistory.items) = 2
    /\ ListOfRecords(tokenUsageHistory)
    /\ tokenUsageHistory.items[1].input = <<>>
    /\ tokenUsageHistory.items[2].input = <<5>>
    /\ statsChart.rendered /\ analyticsChart.rendered
    /\ statsChart.data[1].input = <<>>
    /\ analyticsChart.data[1].input = <<0>>
    /\ analyticsChart.data[2].input = <<5>>
    /\ analyticsChart.data[2].name.turn = 2

(***************************************************************************)
(* Further claims about ProjectDetails, checked under Spec.                *)
(***************************************************************************)

\* C14: once the automatic load has fired (autoLoadTriggered is set), and
\* until projectName changes, the flag stays set and re-runs of the effect
\* start no request: a request is started by a click on retry only, and the
\* settling of a request takes its request out of flight without replacing it.
C14_AutoLoadFiresOnce ==
    [][(autoLoadTriggered /\ projectName' = projectName) =>
          /\ autoLoadTriggered'
          /\ \A s \in SessionIds :
                /\ pendingStats'[s] > pendingStats[s] => RetryClick(s)
                /\ (StatsRejected(s) \/ \E v \in StatValues : StatsResolved(s, v))
                      => pendingStats'[s] = pendingStats[s] - 1]_vars

\* C14 witness: after the automatic load for project A the request of a1 was
\* rejected and that of a2 fulfilled; the effect has re-run and a1 has no
\* request in flight.
C14_Witness ==
    /\ projectName = "A"
    /\ autoLoadTriggered
    /\ LoadsInFlight = 0
    /\ Failed("a1")
    /\ oneShotStats["a2"] = "stats1"

\* C15: a statistics request is never started, and nothing is recorded, for
\* a session whose file_change_count is absent or 0.
C15_NoRequestWithoutChanges ==
    /\ [][\A s \in SessionIds :
            pendingStats'[s] > pendingStats[s] => FileChangeCount(s) > 0]_vars
    /\ [](\A s \in SessionIds :
            FileChangeCount(s) = 0 =>
               /\ pendingStats[s] = 0
               /\ loadingStats[s] = Undefined
               /\ oneShotStats[s] = Undefined)

\* C15 witness: the automatic load has fired for project A, whose session a3
\* has no file changes: a1 and a2 are requested, a3 is not.
C15_Witness ==
    /\ "a3" \in sessions
    /\ autoLoadTriggered
    /\ pendingStats["a1"] = 1
    /\ pendingStats["a2"] = 1
    /\ pendingStats["a3"] = 0
    /\ ~RetryShown("a3")

\* C16 (as stated): whenever loading is false and no error is set, details
\* and sessions are the ones returned for the current projectName.
C16_ShownDataIsOfCurrentProject ==
    (~loading /\ error = Null) =>
       /\ details = projectName
       /\ sessions = SessionsOf(projectName)

\* C18: loadingStats[s] is true exactly while a request for s is in flight:
\* starting a request sets it, and every settling, fulfilled or rejected,
\* leaves it false.
C18_LoadingWhileInFlight ==
    /\ [](\A s \in SessionIds : loadingStats[s] = "true" <=> pendingStats[s] > 0)
    /\ [][\A s \in SessionIds :
            /\ pendingStats'[s] > pendingStats[s] => loadingStats'[s] = "true"
            /\ (StatsRejected(s) \/ \E v \in StatValues : StatsResolved(s, v))
                  => loadingStats'[s] = "false"]_vars

\* C18 witness: the request of a1 has settled and its flag is false while
\* the request of a2 is still in flight with its flag true.
C18_Witness ==
    /\ loadingStats["a1"] = "false"
    /\ pendingStats["a1"] = 0
    /\ loadingStats["a2"] = "true"
    /\ pendingStats["a2"] = 1

(***************************************************************************)
(* Claim about the file-change modal of ProjectDetails, checked under      *)
(* SpecView.                                                               *)
(***************************************************************************)

\* C17 (as stated): whenever the file-change modal holds a non-empty change
\* list, those changes are the ones api.getSessionChanges returned for the
\* currently selected session.
C17_ChangesOfSelectedSession ==
    fileChanges # <<>> =>
       /\ selectedSessionId # Null
       /\ fileChanges = ChangesOf(selectedSessionId)

(***************************************************************************)
(* Claims about the display of the two file trees.                         *)
(***************************************************************************)

\* The keys of the children of parent in a tree with these nodes.
ChildrenOf(nodes, parent) ==
    {k \in DOMAIN nodes :
        Len(k) = Len(parent) + 1 /\ SubSeq(k, 1, Len(parent)) = parent}

\* seq lists every child of parent once, and in names ascending order within
\* the folders, which come first, and within the files.
FoldersFirstByName(nodes, parent, seq, IsFile) ==
    /\ Range(seq) = ChildrenOf(nodes, parent)
    /\ Len(seq) = Cardinality(ChildrenOf(nodes, parent))
    /\ \A i, j \in 1..Len(seq) :
          i < j =>
             /\ ~(seq[i] \in IsFile /\ seq[j] \notin IsFile)
             /\ (seq[i] \in IsFile <=> seq[j] \in IsFile) =>
                   NameRank(nodes[seq[i]].name) < NameRank(nodes[seq[j]].name)

\* C21, under SpecOrder: among the top-level nodes and among the children
\* of every node, FileChangeModal displays every folder before every file and
\* nodes of the same kind in ascending name order; so does CodeSurvival-
\* FileTree in the tree it builds.
C21_FoldersFirstThenByName ==
    /\ fileTree.built =>
          \A parent \in DOMAIN fileTree.order :
             FoldersFirstByName(fileTree.nodes, parent, fileTree.order[parent],
                                FileNodes)
    /\ (survivalTree.built /\ ~survivalTree.threw) =>
          \A parent \in DOMAIN survivalTree.order :
             FoldersFirstByName(survivalTree.nodes, parent,
                survivalTree.order[parent],
                {k \in DOMAIN survivalTree.nodes :
                    survivalTree.nodes[k].type = "file"})

\* C21 witness: the file a and the folder b (of b/a) at the top level; both
\* trees display the folder first although its name is the greater one.
C21_Witness ==
    /\ fileTree.built
    /\ survivalTree.built /\ ~survivalTree.threw
    /\ MapKeys(changes, <<>>) = <<<<"a">>, <<"b", "a">>>>
    /\ fileTree.order[<<>>] = <<<<"b">>, <<"a">>>>
    /\ fileTree.order[<<"b">>] = <<<<"b", "a">>>>
    /\ survivalTree.order[<<>>] = <<<<"b">>, <<"a">>>>

(***************************************************************************)
(* Claim about the expanded folders of CodeSurvivalFileTree, checked under *)
(* SpecTree.                                                               *)
(***************************************************************************)

\* The paths of the top-level folders of the tree shown.
TopLevelFolderPaths ==
    {k \in DOMAIN survivalTree.nodes :
        Len(k) = 1 /\ survivalTree.nodes[k].type = "folder"}

\* A click on a folder row changes the membership of its path only.
TogglesOnlyClicked ==
    \A key \in DOMAIN survivalTree.nodes :
       toggleFolder(key) =>
          /\ (key \in expandedFolders') # (key \in expandedFolders)
          /\ \A p \in (expandedFolders \cup expandedFolders') \ {key} :
                p \in expandedFolders /\ p \in expandedFolders'

\* C22 (as stated): whenever the file list changes and a tree is built for
\* it, expandedFolders becomes exactly the set of top-level folder paths of
\* the new tree; toggleFolder changes the membership of the clicked path only.
C22_ExpandedBecomesTopLevelFolders ==
    [][/\ \A fs \in FilesGiven :
             (FilesChange(fs) /\ ~survivalTree'.threw) =>
                expandedFolders' = TopLevelFolderPaths'
       /\ (RenderCodeSurvivalFileTree /\ ~survivalTree'.threw) =>
             expandedFolders' = TopLevelFolderPaths'
       /\ TogglesOnlyClicked]_vars

\* C22 (amended): whenever the file list changes and a tree is built for it,
\* expandedFolders becomes exactly the set of top-level folder paths of the
\* new tree if there is at least one, and is left as it was if there is
\* none; toggleFolder changes the membership of the clicked path only.
C22_ExpandedBecomesTopLevelFoldersIfAny ==
    [][/\ \A fs \in FilesGiven :
             (FilesChange(fs) /\ ~survivalTree'.threw) =>
                expandedFolders' = IF TopLevelFolderPaths' # {}
                                   THEN TopLevelFolderPaths' ELSE expandedFolders
       /\ (RenderCodeSurvivalFileTree /\ ~survivalTree'.threw) =>
             expandedFolders' = IF TopLevelFolderPaths' # {}
                                THEN TopLevelFolderPaths' ELSE expandedFolders
       /\ TogglesOnlyClicked]_vars

\* C22 witness: the list changed to one without top-level folders after the
\* nested folder a/a of an earlier list had been expanded; the paths
\* expanded before are still in the set.
C22_Witness ==
    /\ survivalTree.built /\ ~survivalTree.threw
    /\ TopLevelFolderPaths = {}
    /\ files # <<>>
    /\ expandedFolders = {<<"a">>, <<"a", "a">>}

====
